---- MODULE Spec2Model ----
(***************************************************************************)
(* A model of script.py: the AT-URI parser, the Bluesky-URL converter, the *)
(* record field extractors, process_post and the interactive loop of main. *)
(*                                                                         *)
(* Python strings are sequences of one-character strings, so that          *)
(* startswith, split, the substring test and the regular expression are    *)
(* computed on the characters.  Python values of loosely typed payloads    *)
(* are tagged records [k |-> kind, v |-> content].                         *)
(***************************************************************************)
EXTENDS Integers, Sequences, FiniteSets, TLC

VARIABLES
    pc,           \* position of main / of the function harness
    arg,          \* the line typed at the last URI prompt / harness: the argument
    env,          \* harness: what the external capability will answer
    ret,          \* outcome of the last step / harness: what the function returned
    calls,        \* the external calls made by the last step (resolve_handle: the handle)
    exit_code,    \* main: exit status of the process, -1 while it runs
    at_uri,       \* main: at_uri
    replies_resp, \* main: replies_resp
    parent_uri,   \* main: parent_uri
    root_uri,     \* main: root_uri
    choice,       \* main: choice, the option entered last
    processed,    \* the URIs the last step called process_post with
    silent        \* the except clauses (by line) that caught without printing in the last step

mainVars == <<exit_code, at_uri, replies_resp, parent_uri, root_uri, choice, processed, silent>>

vars == <<pc, arg, env, ret, calls, exit_code, at_uri, replies_resp, parent_uri, root_uri,
          choice, processed, silent>>

----------------------------------------------------------------------------
(* Bounds *)

\* longest text after the scheme prefix that the parser harness enumerates
MaxLen == 5

\* longest embed.images and media lists that the image harness enumerates
MaxImages == 2

----------------------------------------------------------------------------
(* Strings *)

Chars(s) == {s[i] : i \in 1..Len(s)}

StartsWith(s, p) == Len(s) >= Len(p) /\ SubSeq(s, 1, Len(p)) = p

\* s[n:]
Drop(s, n) == SubSeq(s, n + 1, Len(s))

\* p in s
Contains(s, p) ==
    \E i \in 0..(Len(s) - Len(p)) : SubSeq(s, i + 1, i + Len(p)) = p

\* index of the first "/" of s, 0 when there is none
FirstSlash(s) ==
    IF "/" \in Chars(s)
    THEN CHOOSE i \in 1..Len(s) : s[i] = "/" /\ \A j \in 1..(i - 1) : s[j] # "/"
    ELSE 0

RECURSIVE Split(_)
\* s.split("/")
Split(s) ==
    IF FirstSlash(s) = 0
    THEN <<s>>
    ELSE <<SubSeq(s, 1, FirstSlash(s) - 1)>> \o Split(Drop(s, FirstSlash(s)))

RECURSIVE SeqsUpTo(_, _)
\* all sequences over alphabet A of length at most n
SeqsUpTo(A, n) ==
    IF n = 0 THEN {<<>>}
    ELSE LET shorter == SeqsUpTo(A, n - 1)
         IN  shorter \cup {Append(s, a) : s \in shorter, a \in A}

AT_SCHEME == <<"a", "t", ":", "/", "/">>

----------------------------------------------------------------------------
(* parse_at_uri *)

Raise(e) == [ok |-> FALSE, exc |-> e]

parse_at_uri_rkey1(uri) ==
    IF ~StartsWith(uri, AT_SCHEME)
    THEN Raise("ValueError")
    ELSE LET parts == Split(Drop(uri, Len(AT_SCHEME)))
         IN  IF Len(parts) < 2
             THEN Raise("ValueError")
             ELSE [ok |-> TRUE, did |-> parts[1], rkey |-> parts[2]]

parse_at_uri(uri) ==
    IF ~StartsWith(uri, AT_SCHEME)
    THEN Raise("ValueError")
    ELSE LET remainder == Drop(uri, Len(AT_SCHEME))
             parts == Split(remainder)
         IN  IF Len(parts) < 3
             THEN Raise("ValueError")
             ELSE [ok |-> TRUE, did |-> parts[1], rkey |-> parts[3]]

----------------------------------------------------------------------------
(* Harness of parse_at_uri: every prefix below followed by every text of   *)
(* at most MaxLen characters over {a, b, /}.                               *)

ParsePrefixes ==
    { AT_SCHEME,
      <<"a", "t", ":", "/">>,
      <<"A", "T", ":", "/", "/">>,
      <<"x", "a", "t", ":", "/", "/">>,
      <<>> }

ParseInputs ==
    {p \o r : p \in ParsePrefixes, r \in SeqsUpTo({"a", "b", "/"}, MaxLen)}

NoCall == [ok |-> FALSE, exc |-> "not called"]

\* main has not started: its variables as a function harness leaves them
MainIdle ==
    /\ exit_code = -1
    /\ at_uri = [k |-> "None"]
    /\ replies_resp = [k |-> "None"]
    /\ parent_uri = [k |-> "None"]
    /\ root_uri = [k |-> "None"]
    /\ choice = <<>>
    /\ processed = <<>>
    /\ silent = {}

InitParse ==
    /\ pc = "call"
    /\ arg \in ParseInputs
    /\ env = <<>>
    /\ ret = NoCall
    /\ calls = <<>>
    /\ MainIdle

ParseCall ==
    /\ pc = "call"
    /\ pc' = "returned"
    /\ ret' = parse_at_uri(arg)
    /\ UNCHANGED <<arg, env, calls>>
    /\ UNCHANGED mainVars

NextParse == ParseCall

SpecParse == InitParse /\ [][NextParse]_vars

\* positions of the "/" characters of s
SlashPositions(s) == {i \in 1..Len(s) : s[i] = "/"}

\* the k-th smallest element of a set of positions
Nth(S, k) == CHOOSE i \in S : Cardinality({j \in S : j < i}) = k - 1

\* C3: parse_at_uri succeeds exactly when the URI starts with "at://" and the
\* text after it holds at least two "/" (three segments); it then returns the
\* text before the first "/" and the text between the second "/" and the
\* third (or the end), and a failure carries no did or rkey.
C3_ParseAtUri ==
    pc = "returned" =>
        LET rest == Drop(arg, Len(AT_SCHEME))
            sl == SlashPositions(rest)
            wellFormed == StartsWith(arg, AT_SCHEME) /\ Cardinality(sl) >= 2
            third == IF Cardinality(sl) >= 3 THEN Nth(sl, 3) ELSE Len(rest) + 1
        IN  /\ ret.ok <=> wellFormed
            /\ ret.ok =>
                  /\ ret.did = SubSeq(rest, 1, Nth(sl, 1) - 1)
                  /\ ret.rkey = SubSeq(rest, Nth(sl, 2) + 1, third - 1)
            /\ ~ret.ok => DOMAIN ret = {"ok", "exc"} /\ ret.exc = "ValueError"

C3_Witness ==
    /\ pc = "returned"
    /\ arg = AT_SCHEME \o <<"a", "/", "b", "/", "a">>
    /\ ret = [ok |-> TRUE, did |-> <<"a">>, rkey |-> <<"a">>]

----------------------------------------------------------------------------
(* convert_bluesky_url *)

HTTPS_PROFILE ==
    <<"h", "t", "t", "p", "s", ":", "/", "/", "b", "s", "k", "y", ".",
      "a", "p", "p", "/", "p", "r", "o", "f", "i", "l", "e", "/">>

SLASH_POST == <<"/", "p", "o", "s", "t", "/">>

DID_PREFIX == <<"d", "i", "d", ":">>

COLLECTION_PATH ==
    <<"/", "a", "p", "p", ".", "b", "s", "k", "y", ".",
      "f", "e", "e", "d", ".", "p", "o", "s", "t", "/">>

\* the longest prefix of s without "/": what a greedy [^/]+ consumes
NonSlashRun(s) ==
    IF FirstSlash(s) = 0 THEN s ELSE SubSeq(s, 1, FirstSlash(s) - 1)

\* re.match(r'https://bsky\.app/profile/([^/]+)/post/([^/]+)', url):
\* anchored at the start, not at the end
ProfilePostMatch(url) ==
    IF ~StartsWith(url, HTTPS_PROFILE)
    THEN [ok |-> FALSE]
    ELSE LET afterProfile == Drop(url, Len(HTTPS_PROFILE))
             g1 == NonSlashRun(afterProfile)
             afterG1 == Drop(afterProfile, Len(g1))
             g2 == NonSlashRun(Drop(afterG1, Len(SLASH_POST)))
         IN  IF g1 # <<>> /\ StartsWith(afterG1, SLASH_POST) /\ g2 # <<>>
             THEN [ok |-> TRUE, handle_or_did |-> g1, rkey |-> g2]
             ELSE [ok |-> FALSE]

\* client.com.atproto.identity.resolve_handle answers
\* [ok |-> TRUE, did |-> d] or fails with [ok |-> FALSE, exc |-> e].
\* The result carries the calls made to it (the handles passed).
Returned(v, cs) == [ok |-> TRUE, val |-> v, calls |-> cs]
Raised(e, cs) == [ok |-> FALSE, exc |-> e, calls |-> cs]

\* as convert_bluesky_url, testing "did" without the colon
convert_bluesky_url_did3(url, resolve) ==
    LET match == ProfilePostMatch(url)
    IN  IF ~match.ok
        THEN Raised("ValueError", <<>>)
        ELSE IF StartsWith(match.handle_or_did, <<"d", "i", "d">>)
             THEN Returned(AT_SCHEME \o match.handle_or_did \o COLLECTION_PATH
                               \o match.rkey, <<>>)
             ELSE IF resolve.ok
                  THEN Returned(AT_SCHEME \o resolve.did \o COLLECTION_PATH
                                    \o match.rkey, <<match.handle_or_did>>)
                  ELSE Raised(resolve.exc, <<match.handle_or_did>>)

\* as convert_bluesky_url, retrying a failed resolution once
convert_bluesky_url_retry(url, resolve) ==
    LET match == ProfilePostMatch(url)
    IN  IF ~match.ok
        THEN Raised("ValueError", <<>>)
        ELSE IF StartsWith(match.handle_or_did, DID_PREFIX)
             THEN Returned(AT_SCHEME \o match.handle_or_did \o COLLECTION_PATH
                               \o match.rkey, <<>>)
             ELSE IF resolve.ok
                  THEN Returned(AT_SCHEME \o resolve.did \o COLLECTION_PATH
                                    \o match.rkey, <<match.handle_or_did>>)
                  ELSE Raised(resolve.exc,
                              <<match.handle_or_did, match.handle_or_did>>)

convert_bluesky_url(url, resolve) ==
    LET match == ProfilePostMatch(url)
    IN  IF ~match.ok
        THEN Raised("ValueError", <<>>)
        ELSE IF StartsWith(match.handle_or_did, DID_PREFIX)
             THEN Returned(AT_SCHEME \o match.handle_or_did \o COLLECTION_PATH
                               \o match.rkey, <<>>)
             ELSE IF resolve.ok
                  THEN Returned(AT_SCHEME \o resolve.did \o COLLECTION_PATH
                                    \o match.rkey, <<match.handle_or_did>>)
                  ELSE Raised(resolve.exc, <<match.handle_or_did>>)

----------------------------------------------------------------------------
(* Harness of convert_bluesky_url: URLs assembled from the pieces below,   *)
(* against a resolver that answers a DID or fails.                         *)

UrlPrefixes ==
    { HTTPS_PROFILE,
      <<"h", "t", "t", "p", ":", "/", "/", "b", "s", "k", "y", ".",
        "a", "p", "p", "/", "p", "r", "o", "f", "i", "l", "e", "/">>,
      <<"h", "t", "t", "p", "s", ":", "/", "/", "b", "s", "k", "y", "x",
        "a", "p", "p", "/", "p", "r", "o", "f", "i", "l", "e", "/">> }

UrlActors ==
    { <<"d", "i", "d", ":", "x">>, <<"d", "i", "d", ":">>, <<"d", "i", "d">>,
      <<"a", "l">>, <<"x", "d", "i", "d", ":">>, <<>> }

UrlMiddles ==
    { SLASH_POST, <<"/", "p", "o", "s", "/">>, <<"/", "/", "p", "o", "s", "t", "/">> }

UrlKeys == { <<"k">>, <<"k", "?", "q">>, <<>> }

UrlTails == { <<>>, <<"/", "z">> }

ConvertInputs ==
    {p \o x \o m \o y \o t :
        p \in UrlPrefixes, x \in UrlActors, m \in UrlMiddles,
        y \in UrlKeys, t \in UrlTails}

ResolveAnswers ==
    { [ok |-> TRUE, did |-> <<"d", "i", "d", ":", "r">>],
      [ok |-> FALSE, exc |-> "ResolveError"] }

InitConvert ==
    /\ pc = "call"
    /\ arg \in ConvertInputs
    /\ env \in ResolveAnswers
    /\ ret = NoCall
    /\ calls = <<>>
    /\ MainIdle

ConvertCall ==
    /\ pc = "call"
    /\ pc' = "returned"
    /\ LET r == convert_bluesky_url(arg, env)
       IN  /\ ret' = IF r.ok THEN [ok |-> TRUE, val |-> r.val]
                             ELSE [ok |-> FALSE, exc |-> r.exc]
           /\ calls' = calls \o r.calls
    /\ UNCHANGED <<arg, env>>
    /\ UNCHANGED mainVars

NextConvert == ConvertCall

SpecConvert == InitConvert /\ [][NextConvert]_vars

\* the pairs <<x, y>> of pieces of url that stand where <X> and <Y> would:
\* x right after the profile prefix, y six characters after the end of x
ActorKeyPieces(url) ==
    LET p == Len(HTTPS_PROFILE)
        q == Len(SLASH_POST)
    IN  UNION { { <<SubSeq(url, p + 1, p + i), SubSeq(url, p + i + q + 1, p + i + q + j)>> :
                    j \in 1..(Len(url) - p - i - q) } :
                i \in 1..(Len(url) - p) }

\* url is https://bsky.app/profile/<x>/post/<y>, possibly followed by "/..."
IsProfilePostUrl(url, x, y) ==
    /\ x # <<>> /\ "/" \notin Chars(x)
    /\ y # <<>> /\ "/" \notin Chars(y)
    /\ LET head == HTTPS_PROFILE \o x \o SLASH_POST \o y
       IN  /\ StartsWith(url, head)
           /\ Len(url) > Len(head) => url[Len(head) + 1] = "/"

\* C4: for a URL https://bsky.app/profile/<X>/post/<Y>, a DID X gives
\* at://<X>/app.bsky.feed.post/<Y> with no identity resolution; any other X
\* is resolved exactly once, with X, and the answer's DID is used.
C4_Convert ==
    pc = "returned" =>
        \A xy \in ActorKeyPieces(arg) :
            LET x == xy[1]
                y == xy[2]
            IN
            IsProfilePostUrl(arg, x, y) =>
                IF StartsWith(x, DID_PREFIX)
                THEN /\ ret = [ok |-> TRUE, val |-> AT_SCHEME \o x \o COLLECTION_PATH \o y]
                     /\ calls = <<>>
                ELSE /\ calls = <<x>>
                     /\ env.ok =>
                            ret = [ok |-> TRUE,
                                   val |-> AT_SCHEME \o env.did \o COLLECTION_PATH \o y]

C4_Witness ==
    /\ pc = "returned"
    /\ arg = HTTPS_PROFILE \o <<"a", "l">> \o SLASH_POST \o <<"k">>
    /\ calls = << <<"a", "l">> >>
    /\ ret.ok

\* C5: a URL that is not of the profile/post form raises without any
\* identity resolution; a failed resolution is raised to the caller, no URI
\* is returned and the resolver has been called once only.
C5_ConvertErrors ==
    pc = "returned" =>
        /\ (~\E xy \in ActorKeyPieces(arg) : IsProfilePostUrl(arg, xy[1], xy[2])) =>
               ret = [ok |-> FALSE, exc |-> "ValueError"] /\ calls = <<>>
        /\ (calls # <<>> /\ ~env.ok) =>
               ret = [ok |-> FALSE, exc |-> env.exc] /\ Len(calls) = 1

C5_Witness ==
    /\ pc = "returned"
    /\ arg = HTTPS_PROFILE \o <<"a", "l">> \o SLASH_POST \o <<"k">>
    /\ ~env.ok
    /\ ~ret.ok
    /\ Len(calls) = 1

----------------------------------------------------------------------------
(* Python values of the loosely typed payloads *)

PyNone == [k |-> "None"]
PyStr(s) == [k |-> "str", v |-> s]
PyList(l) == [k |-> "list", v |-> l]
\* a dict is a function from its keys; Absent marks a key to leave out
Absent == [k |-> "absent"]
PyDict(f) == [k |-> "dict", v |-> [key \in {x \in DOMAIN f : f[x] # Absent} |-> f[key]]]
EmptyDict == [k |-> "dict", v |-> <<>>]

\* isinstance(x, dict)
IsDict(x) == x.k = "dict"
\* key in d, for a dict d
HasKey(d, key) == key \in DOMAIN d.v
\* bool(x)
Truthy(x) ==
    CASE x.k = "None" -> FALSE
      [] x.k = "str" -> x.v # <<>>
      [] x.k = "list" -> x.v # <<>>
      [] x.k = "dict" -> DOMAIN x.v # {}
      [] OTHER -> TRUE

NO_TEXT_CONTENT ==
    PyStr(<<"N", "o", " ", "t", "e", "x", "t", " ", "c", "o", "n", "t", "e", "n", "t">>)

----------------------------------------------------------------------------
(* extract_text_from_record *)

\* the text found under a value wrapper: value.text, then value.content
TextOfValue(val) ==
    IF HasKey(val, "text") /\ Truthy(val.v["text"]) THEN val.v["text"]
    ELSE IF HasKey(val, "content") /\ Truthy(val.v["content"]) THEN val.v["content"]
    ELSE Absent

\* lines 98-113: the text under the record wrapper, then under the value wrapper
TextBelow(record_value) ==
    LET rec == IF HasKey(record_value, "record") THEN record_value.v["record"] ELSE Absent
        inRec ==
            IF ~IsDict(rec) THEN Absent
            ELSE IF HasKey(rec, "text") /\ Truthy(rec.v["text"]) THEN rec.v["text"]
            ELSE IF HasKey(rec, "value") /\ IsDict(rec.v["value"])
                 THEN TextOfValue(rec.v["value"])
                 ELSE Absent
        val == IF HasKey(record_value, "value") THEN record_value.v["value"] ELSE Absent
        inVal == IF IsDict(val) THEN TextOfValue(val) ELSE Absent
    IN  IF inRec # Absent THEN inRec
        ELSE IF inVal # Absent THEN inVal
        ELSE NO_TEXT_CONTENT

\* as extract_text_from_record, without the emptiness test on the top-level text
extract_text_from_record_empty(record_value) ==
    IF ~IsDict(record_value) THEN NO_TEXT_CONTENT
    ELSE IF HasKey(record_value, "text") THEN record_value.v["text"]
    ELSE TextBelow(record_value)

extract_text_from_record(record_value) ==
    IF ~IsDict(record_value) THEN NO_TEXT_CONTENT
    ELSE IF HasKey(record_value, "text") /\ Truthy(record_value.v["text"])
    THEN record_value.v["text"]
    ELSE TextBelow(record_value)

----------------------------------------------------------------------------
(* Harness of extract_text_from_record: every payload with the keys text,  *)
(* record and value, each absent, not a mapping, or a mapping of leaves.   *)

TextLeaves == {Absent, PyNone, PyStr(<<>>), PyStr(<<"h", "i">>), PyStr(<<"y", "o">>)}

ValueWrappers ==
    {Absent, PyNone} \cup
    {PyDict([text |-> t, content |-> c]) : t \in TextLeaves, c \in TextLeaves}

RecordWrappers ==
    {Absent, PyStr(<<"h", "i">>)} \cup
    {PyDict([text |-> t, value |-> w]) : t \in TextLeaves, w \in ValueWrappers}

TextPayloads ==
    {PyNone, PyStr(<<"h", "i">>), PyList(<<>>)} \cup
    {PyDict([text |-> t, record |-> r, value |-> w]) :
        t \in TextLeaves, r \in RecordWrappers, w \in ValueWrappers}

InitText ==
    /\ pc = "call"
    /\ arg \in TextPayloads
    /\ env = <<>>
    /\ ret = NoCall
    /\ calls = <<>>
    /\ MainIdle

TextCall ==
    /\ pc = "call"
    /\ pc' = "returned"
    /\ ret' = [ok |-> TRUE, val |-> extract_text_from_record(arg)]
    /\ UNCHANGED <<arg, env, calls>>
    /\ UNCHANGED mainVars

NextText == TextCall

SpecText == InitText /\ [][NextText]_vars

RECURSIVE Lookup(_, _)
\* the value at a path of keys, Absent when a key is missing or the value on
\* the way is not a mapping
Lookup(x, path) ==
    IF path = <<>> THEN x
    ELSE IF x.k = "dict" /\ Head(path) \in DOMAIN x.v
         THEN Lookup(x.v[Head(path)], Tail(path))
         ELSE Absent

TextPaths ==
    << <<"text">>, <<"record", "text">>, <<"record", "value", "text">>,
       <<"record", "value", "content">>, <<"value", "text">>, <<"value", "content">> >>

Found(x, path) == Lookup(x, path) # Absent /\ Truthy(Lookup(x, path))

\* C6: the result is the value at the first of the six paths that holds a
\* non-empty value; without one it is the sentinel; it is never empty.
C6_ExtractText ==
    pc = "returned" =>
        LET hits == {i \in 1..Len(TextPaths) : Found(arg, TextPaths[i])}
        IN  /\ ret.ok
            /\ hits # {} =>
                   ret.val = Lookup(arg, TextPaths[CHOOSE i \in hits : \A j \in hits : i <= j])
            /\ hits = {} => ret.val = NO_TEXT_CONTENT
            /\ Truthy(ret.val)

C6_Witness ==
    /\ pc = "returned"
    /\ arg = PyDict([text |-> PyStr(<<>>),
                     record |-> PyDict([text |-> PyNone,
                                        value |-> PyDict([text |-> Absent,
                                                          content |-> PyStr(<<"y", "o">>)])]),
                     value |-> PyDict([text |-> PyStr(<<"h", "i">>), content |-> Absent])])
    /\ ret.val = PyStr(<<"y", "o">>)

----------------------------------------------------------------------------
(* extract_images_from_record *)

NO_DESCRIPTION ==
    PyStr(<<"N", "o", " ", "d", "e", "s", "c", "r", "i", "p", "t", "i", "o", "n">>)

\* d.get(key, default) of a dict d
DictGet(d, key, default) == IF HasKey(d, key) THEN d.v[key] ELSE default

\* lines 72-79, one element of embed['images']: the entries it appends, or
\* the exception it raises
EmbedImageEntry(img) ==
    IF ~IsDict(img) THEN Raise("AttributeError")
    ELSE IF ~HasKey(img, "image") THEN [ok |-> TRUE, val |-> <<>>]
    ELSE LET image == img.v["image"]
         IN  IF ~IsDict(image) THEN Raise("TypeError")
             ELSE IF ~HasKey(image, "ref") THEN [ok |-> TRUE, val |-> <<>>]
             ELSE LET image_ref == image.v["ref"]
                      ref_url == IF IsDict(image_ref)
                                 THEN DictGet(image_ref, "$link", PyNone)
                                 ELSE PyNone
                  IN  [ok |-> TRUE,
                       val |-> << [alt |-> DictGet(img, "alt", NO_DESCRIPTION),
                                   ref |-> ref_url] >>]

\* lines 83-87, one element of record_value['media']
MediaEntry(m) ==
    IF ~IsDict(m) THEN Raise("AttributeError")
    ELSE IF DictGet(m, "type", PyNone) = PyStr(<<"i", "m", "a", "g", "e">>)
            /\ Truthy(DictGet(m, "url", PyNone))
         THEN [ok |-> TRUE,
               val |-> << [alt |-> DictGet(m, "alt", NO_DESCRIPTION),
                           ref |-> DictGet(m, "url", PyNone)] >>]
         ELSE [ok |-> TRUE, val |-> <<>>]

RECURSIVE EmbedImages(_, _)
\* the loop of line 71 over the list l, appending to images
EmbedImages(l, images) ==
    IF l = <<>> THEN [ok |-> TRUE, val |-> images]
    ELSE LET e == EmbedImageEntry(Head(l))
         IN  IF e.ok THEN EmbedImages(Tail(l), images \o e.val) ELSE e

RECURSIVE MediaImages(_, _)
\* the loop of line 82 over the list l, appending to images
MediaImages(l, images) ==
    IF l = <<>> THEN [ok |-> TRUE, val |-> images]
    ELSE LET e == MediaEntry(Head(l))
         IN  IF e.ok THEN MediaImages(Tail(l), images \o e.val) ELSE e

extract_images_from_record(record_value) ==
    IF ~IsDict(record_value) THEN [ok |-> TRUE, val |-> <<>>]
    ELSE LET embed == DictGet(record_value, "embed", Absent)
             fromEmbed ==
                 IF IsDict(embed) /\ HasKey(embed, "images")
                 THEN IF embed.v["images"].k = "list"
                      THEN EmbedImages(embed.v["images"].v, <<>>)
                      ELSE Raise("TypeError")
                 ELSE [ok |-> TRUE, val |-> <<>>]
             media == DictGet(record_value, "media", Absent)
         IN  IF ~fromEmbed.ok THEN fromEmbed
             ELSE IF media.k = "list" THEN MediaImages(media.v, fromEmbed.val)
             ELSE fromEmbed

----------------------------------------------------------------------------
(* Harness of extract_images_from_record: embed.images and media lists of  *)
(* at most MaxImages elements of the shapes below.                         *)

LINK == PyStr(<<"b", "a", "f", "y">>)
IMAGE == PyStr(<<"i", "m", "a", "g", "e">>)
ALT == PyStr(<<"c", "a", "t">>)

EmbedImageShapes ==
    { PyDict([alt |-> ALT, image |-> PyDict([ref |-> PyDict([link |-> Absent])])]),
      PyDict([alt |-> Absent, image |-> PyDict([ref |-> LINK])]),
      PyDict([alt |-> ALT, image |-> PyDict([ref |-> Absent])]),
      PyDict([alt |-> ALT, image |-> Absent]),
      PyDict([alt |-> ALT, image |-> PyNone]),
      [k |-> "dict", v |-> [key \in {"alt", "image"} |->
            IF key = "alt" THEN ALT
            ELSE [k |-> "dict", v |-> [r \in {"ref"} |->
                    [k |-> "dict", v |-> [l \in {"$link"} |-> LINK]]]]]] }

MediaShapes ==
    { PyDict([type |-> IMAGE, url |-> LINK, alt |-> ALT]),
      PyDict([type |-> IMAGE, url |-> Absent, alt |-> ALT]),
      PyDict([type |-> IMAGE, url |-> PyStr(<<>>), alt |-> Absent]),
      PyDict([type |-> PyStr(<<"v", "i", "d", "e", "o">>), url |-> LINK, alt |-> Absent]),
      PyNone }

ImagePayloads ==
    {PyNone} \cup
    {PyDict([embed |-> e, media |-> m]) :
        e \in {Absent, PyNone, EmptyDict, PyDict([images |-> PyNone])} \cup
              {PyDict([images |-> PyList(l)]) : l \in SeqsUpTo(EmbedImageShapes, MaxImages)},
        m \in {Absent, PyNone} \cup
              {PyList(l) : l \in SeqsUpTo(MediaShapes, MaxImages)}}

InitImages ==
    /\ pc = "call"
    /\ arg \in ImagePayloads
    /\ env = <<>>
    /\ ret = NoCall
    /\ calls = <<>>
    /\ MainIdle

ImagesCall ==
    /\ pc = "call"
    /\ pc' = "returned"
    /\ ret' = extract_images_from_record(arg)
    /\ UNCHANGED <<arg, env, calls>>
    /\ UNCHANGED mainVars

NextImages == ImagesCall

SpecImages == InitImages /\ [][NextImages]_vars

\* the image attachments of a payload: the elements of embed.images and the
\* elements of media whose type is "image"
NumAttachments(x) ==
    LET imgs == Lookup(x, <<"embed", "images">>)
        media == Lookup(x, <<"media">>)
    IN  (IF imgs.k = "list" THEN Len(imgs.v) ELSE 0)
        + (IF media.k = "list"
           THEN Cardinality({i \in 1..Len(media.v) :
                                Lookup(media.v[i], <<"type">>) = IMAGE})
           ELSE 0)

\* C7: the entries returned are as many as the image attachments of the
\* payload: no attachment is dropped.
C7_NoneDropped ==
    (pc = "returned" /\ ret.ok) => Len(ret.val) = NumAttachments(arg)

----------------------------------------------------------------------------
(* Objects of the SDK: attributes instead of keys *)

PyObj(f) == [k |-> "obj", v |-> [a \in {x \in DOMAIN f : f[x] # Absent} |-> f[a]]]

\* hasattr(x, a)
HasAttr(x, a) == x.k = "obj" /\ a \in DOMAIN x.v

\* an external call answers [ok |-> TRUE, val |-> v] or fails
Answer(v) == [ok |-> TRUE, val |-> v]
Failure == [ok |-> FALSE, exc |-> "RequestError"]

URI_A ==
    PyStr(AT_SCHEME \o <<"d", "i", "d", ":", "a">> \o COLLECTION_PATH \o <<"1">>)
URI_B ==
    PyStr(AT_SCHEME \o <<"d", "i", "d", ":", "b">> \o COLLECTION_PATH \o <<"2">>)

----------------------------------------------------------------------------
(* process_post, lines 281-312: the reply links of the displayed post *)

\* as ReplyInfo, looking under record.reply first
ReplyInfo_nested_first(record_value) ==
    IF HasKey(record_value, "record") /\ IsDict(record_value.v["record"])
         /\ HasKey(record_value.v["record"], "reply")
    THEN record_value.v["record"].v["reply"]
    ELSE IF HasKey(record_value, "reply") THEN record_value.v["reply"]
    ELSE PyNone

\* lines 282-287
ReplyInfo(record_value) ==
    IF HasKey(record_value, "reply") THEN record_value.v["reply"]
    ELSE IF HasKey(record_value, "record") /\ IsDict(record_value.v["record"])
            /\ HasKey(record_value.v["record"], "reply")
         THEN record_value.v["record"].v["reply"]
         ELSE PyNone

\* lines 290-293: reply_info[which]['uri'] when it is there, else old
LinkOf(reply_info, which, old) ==
    IF HasKey(reply_info, which) /\ IsDict(reply_info.v[which])
         /\ HasKey(reply_info.v[which], "uri")
    THEN reply_info.v[which].v["uri"]
    ELSE old

\* lines 301-305 and 306-310: thread.<which>.uri, else thread.<which>.post.uri
ThreadLinkOf(thread, which, old) ==
    IF ~HasAttr(thread, which) THEN old
    ELSE LET node == thread.v[which]
         IN  IF HasAttr(node, "uri") THEN node.v["uri"]
             ELSE IF HasAttr(node, "post") /\ HasAttr(node.v["post"], "uri")
                  THEN node.v["post"].v["uri"]
                  ELSE old

\* lines 281-312; thread_answer is what get_post_thread answers if asked.
\* The result tells whether it was asked and whether a failure was printed.
ReplyLinks(record_value, thread_answer) ==
    LET reply_info == ReplyInfo(record_value)
        parent0 == IF IsDict(reply_info) THEN LinkOf(reply_info, "parent", PyNone) ELSE PyNone
        root0 == IF IsDict(reply_info) THEN LinkOf(reply_info, "root", PyNone) ELSE PyNone
    IN  IF Truthy(parent0) \/ Truthy(root0)
        THEN [reply_info |-> reply_info, parent_uri |-> parent0, root_uri |-> root0,
              asked |-> FALSE, failed |-> FALSE]
        ELSE IF ~thread_answer.ok
             THEN [reply_info |-> reply_info, parent_uri |-> parent0, root_uri |-> root0,
                   asked |-> TRUE, failed |-> TRUE]
             ELSE LET thread_resp == thread_answer.val
                      withThread == Truthy(thread_resp) /\ HasAttr(thread_resp, "thread")
                  IN  [reply_info |-> reply_info,
                       parent_uri |-> IF withThread
                                      THEN ThreadLinkOf(thread_resp.v["thread"], "parent", parent0)
                                      ELSE parent0,
                       root_uri |-> IF withThread
                                    THEN ThreadLinkOf(thread_resp.v["thread"], "root", root0)
                                    ELSE root0,
                       asked |-> TRUE, failed |-> FALSE]

----------------------------------------------------------------------------
(* Harness of the reply links: every record with reply and record.reply of *)
(* the shapes below, against every thread answer below.                    *)

ParentShapes ==
    {Absent, PyNone, EmptyDict, PyDict([uri |-> URI_A]), PyDict([uri |-> PyStr(<<>>)])}

RootShapes ==
    {Absent, PyNone, EmptyDict, PyDict([uri |-> URI_B]), PyDict([uri |-> URI_A])}

ReplyShapes ==
    {PyNone} \cup {PyDict([parent |-> p, root |-> r]) : p \in ParentShapes, r \in RootShapes}

ReplyPayloads ==
    {PyDict([reply |-> a, record |-> b]) :
        a \in {Absent} \cup ReplyShapes,
        b \in {Absent, PyNone} \cup {PyDict([reply |-> c]) : c \in ReplyShapes}}

ThreadNodes(u) ==
    {Absent, PyNone, PyObj([uri |-> u, post |-> Absent]),
     PyObj([uri |-> Absent, post |-> PyObj([uri |-> u])]),
     PyObj([uri |-> Absent, post |-> PyObj([uri |-> Absent])])}

LinkThreadAnswers ==
    {Failure, Answer(PyNone), Answer(PyObj([thread |-> Absent]))} \cup
    {Answer(PyObj([thread |-> PyObj([parent |-> p, root |-> r])])) :
        p \in ThreadNodes(URI_A), r \in ThreadNodes(URI_B)}

InitReply ==
    /\ pc = "call"
    /\ arg \in ReplyPayloads
    /\ env \in LinkThreadAnswers
    /\ ret = NoCall
    /\ calls = <<>>
    /\ MainIdle

ReplyCall ==
    /\ pc = "call"
    /\ pc' = "returned"
    /\ LET r == ReplyLinks(arg, env)
       IN  /\ ret' = [ok |-> TRUE, val |-> <<r.parent_uri, r.root_uri>>]
           /\ calls' = IF r.asked THEN <<"get_post_thread">> ELSE <<>>
    /\ UNCHANGED <<arg, env>>
    /\ UNCHANGED mainVars

NextReply == ReplyCall

SpecReply == InitReply /\ [][NextReply]_vars

RECURSIVE AttrLookup(_, _)
\* the value at a path of attributes, Absent when one is missing
AttrLookup(x, path) ==
    IF path = <<>> THEN x
    ELSE IF x.k = "obj" /\ Head(path) \in DOMAIN x.v
         THEN AttrLookup(x.v[Head(path)], Tail(path))
         ELSE Absent

\* the link the record itself gives: reply.<which>.uri, under the direct
\* reply key if there is one, else under record.reply; None without it
RecordLink(x, which) ==
    LET info == IF Lookup(x, <<"reply">>) # Absent
                THEN Lookup(x, <<"reply">>)
                ELSE Lookup(x, <<"record", "reply">>)
        u == Lookup(info, <<which, "uri">>)
    IN  IF u = Absent THEN PyNone ELSE u

\* the link the thread gives: thread.<which>.uri, else thread.<which>.post.uri
ThreadLink(answer, which) ==
    IF ~answer.ok THEN Absent
    ELSE IF AttrLookup(answer.val, <<"thread", which, "uri">>) # Absent
         THEN AttrLookup(answer.val, <<"thread", which, "uri">>)
         ELSE AttrLookup(answer.val, <<"thread", which, "post", "uri">>)

\* C8 as stated: a record without reply linkage, {}, yields (None, None).
C8_EmptyRecordNoLinks ==
    (pc = "returned" /\ arg = EmptyDict) => ret.val = <<PyNone, PyNone>>

\* C8 amended: the links are reply.parent.uri and reply.root.uri of the record
\* (direct reply key, else record.reply), each independently optional, and no
\* thread is fetched when one of them is non-empty; when neither is, e.g. for
\* {}, get_post_thread is asked once and each link the thread carries
\* (thread.parent / thread.root, uri or post.uri) replaces the record's, so
\* {} yields (None, None) only if the thread gives neither.
C8_ReplyLinks ==
    pc = "returned" =>
        LET rp == RecordLink(arg, "parent")
            rr == RecordLink(arg, "root")
            tp == ThreadLink(env, "parent")
            tr == ThreadLink(env, "root")
        IN  IF Truthy(rp) \/ Truthy(rr)
            THEN ret.val = <<rp, rr>> /\ calls = <<>>
            ELSE /\ calls = <<"get_post_thread">>
                 /\ ret.val = <<IF tp # Absent THEN tp ELSE rp,
                                IF tr # Absent THEN tr ELSE rr>>

C8_Witness ==
    /\ pc = "returned"
    /\ arg = PyDict([reply |-> PyDict([parent |-> PyDict([uri |-> URI_A]),
                                       root |-> PyDict([uri |-> URI_B])])])
    /\ ret.val = <<URI_A, URI_B>>
    /\ calls = <<>>

----------------------------------------------------------------------------
(* What the server answers.  Every external call answers afresh: a failure *)
(* or one of the shapes below.                                             *)

URI_JUNK == PyStr(<<"j", "u", "n", "k">>)

UNKNOWN_URI == PyStr(<<"U", "n", "k", "n", "o", "w", "n", " ", "U", "R", "I">>)

\* client.com.atproto.repo.get_record(...).value, after safe_to_dict
RecordAnswers ==
    { Failure,
      Answer(PyNone),
      Answer(EmptyDict),
      Answer(PyDict([reply |-> PyDict([parent |-> PyDict([uri |-> URI_A]),
                                       root |-> PyDict([uri |-> URI_B])])])),
      Answer(PyDict([reply |-> PyDict([parent |-> PyDict([uri |-> URI_A]),
                                       root |-> PyDict([uri |-> URI_A])])])),
      Answer(PyDict([reply |-> PyDict([parent |-> PyDict([uri |-> URI_JUNK])])])) }

\* client.app.bsky.actor.get_profile(...)
ProfileAnswers == {Failure, Answer(PyObj([handle |-> PyStr(<<"a", "l">>)]))}

\* client.app.bsky.feed.get_post_thread({'uri': at_uri}), asked for the links
ContextAnswers ==
    { Failure,
      Answer(PyObj([thread |->
          PyObj([parent |-> PyObj([post |-> PyObj([uri |-> URI_B])])])])) }

\* one element of thread.replies
ChildPost(u) == PyObj([post |-> PyObj([uri |-> u])])
ChildWithoutPost == [k |-> "obj", v |-> <<>>]

ChildLists ==
    { <<>>,
      <<ChildPost(URI_A), ChildPost(URI_JUNK)>>,
      <<ChildWithoutPost, ChildPost(URI_A)>>,
      <<PyObj([post |-> PyObj([uri |-> Absent])])>> }

\* client.app.bsky.feed.get_post_thread({'uri': at_uri, 'depth': 1})
RepliesAnswers ==
    { Failure,
      Answer(PyNone),
      Answer(PyObj([thread |-> Absent])),
      Answer(PyObj([thread |-> PyObj([replies |-> Absent])])),
      Answer(PyObj([thread |-> PyObj([replies |-> PyNone])])),
      Answer(PyObj([thread |-> PyObj([children |-> PyList(<<ChildPost(URI_B)>>)])])) }
    \cup {Answer(PyObj([thread |-> PyObj([replies |-> PyList(l)])])) : l \in ChildLists}

----------------------------------------------------------------------------
(* Exception handling *)

\* as ExceptException, for a clause written `except ValueError`
ExceptValueError(exc) == exc = "ValueError"

\* `except Exception` catches every exception the calls above raise
ExceptException(exc) ==
    exc \in {"ValueError", "AttributeError", "TypeError", "RequestError"}

\* the except clauses of script.py by line, and whether the clause prints
HandlerPrints ==
    [line \in {43, 146, 160, 193, 200, 217, 240, 244, 261, 311, 390, 398, 410,
               455, 468, 485, 504, 523, 528, 533, 549} |->
        line \notin {146, 390}]

\* the silent catches after the clause at `line` has caught
Caught(line, sil) == IF HandlerPrints[line] THEN sil ELSE sil \cup {line}

\* parse_at_uri applied to a payload value: a value without startswith raises
ParseUri(x) == IF x.k = "str" THEN parse_at_uri(x.v) ELSE Raise("AttributeError")

----------------------------------------------------------------------------
(* fetch_post_details: the silent catches each way through it can leave.   *)
(* Its result is printed only.                                             *)

fetch_post_details(uri, sil) ==
    IF ~ParseUri(uri).ok THEN {Caught(160, sil)}
    ELSE UNION {
        IF ~rec.ok THEN {Caught(160, sil)}
        ELSE { LET afterProfile == IF prof.ok THEN sil ELSE Caught(146, sil)
               IN  \* line 150: record_value.get raises on a value that is no mapping
                   IF IsDict(rec.val) THEN afterProfile ELSE Caught(160, afterProfile)
               : prof \in ProfileAnswers }
        : rec \in RecordAnswers }

----------------------------------------------------------------------------
(* process_post *)

\* lines 363-366 and 539-542: thread.replies, else thread.children, else []
Children(thread) ==
    IF HasAttr(thread, "replies") THEN thread.v["replies"]
    ELSE IF HasAttr(thread, "children") THEN thread.v["children"]
    ELSE PyList(<<>>)

\* len(x)
PyLen(x) == IF x.k \in {"list", "str"} THEN Answer(Len(x.v)) ELSE Raise("TypeError")

RECURSIVE ListReplies(_, _)
\* lines 368-399: the silent catches after listing the children l
ListReplies(l, sil) ==
    IF l = <<>> THEN sil
    ELSE LET reply == Head(l)
             r_uri == IF HasAttr(reply.v["post"], "uri")
                      THEN reply.v["post"].v["uri"] ELSE UNKNOWN_URI
         IN  IF ~HasAttr(reply, "post") THEN ListReplies(Tail(l), sil)
             ELSE IF ParseUri(r_uri).ok THEN ListReplies(Tail(l), sil)
             ELSE ListReplies(Tail(l), Caught(390, sil))

\* what process_post hands back: the tuple it returns, or the exception that
\* leaves it, with the silent catches on the way
Return(how, replies, parent, root, sil) ==
    [raised |-> FALSE, exc |-> "", how |-> how, replies_resp |-> replies,
     parent_uri |-> parent, root_uri |-> root, silent |-> sil]
Throw(e, sil) ==
    [raised |-> TRUE, exc |-> e, how |-> "raised", replies_resp |-> PyNone,
     parent_uri |-> PyNone, root_uri |-> PyNone, silent |-> sil]

\* lines 351-436, for one answer of get_post_thread(depth 1)
RepliesAndMenu(answer, parent, root, sil) ==
    IF ~answer.ok THEN Return("shown", PyNone, parent, root, Caught(410, sil))
    ELSE LET resp == answer.val
             withThread == Truthy(resp) /\ HasAttr(resp, "thread")
             children == IF withThread THEN Children(resp.v["thread"]) ELSE PyList(<<>>)
             listed == IF children.k = "list" THEN ListReplies(children.v, sil) ELSE sil
             \* lines 423-428: len(thread.replies), else len(thread.children)
             counted == IF withThread /\ (HasAttr(resp.v["thread"], "replies")
                                           \/ HasAttr(resp.v["thread"], "children"))
                        THEN PyLen(children) ELSE Answer(0)
         IN  IF counted.ok THEN Return("shown", resp, parent, root, listed)
             ELSE Throw(counted.exc, listed)

\* lines 314-349: the silent catches the thread context can leave
ThreadContext(links, sil) ==
    LET parent == links.parent_uri
        root == links.root_uri
        shown == Truthy(links.reply_info) \/ Truthy(parent) \/ Truthy(root)
        afterRoot == IF shown /\ Truthy(root) /\ root # parent
                     THEN fetch_post_details(root, sil) ELSE {sil}
    IN  IF shown /\ Truthy(parent)
        THEN UNION {fetch_post_details(parent, s) : s \in afterRoot}
        ELSE afterRoot

\* lines 221-436, for a fetched record_value
ShowPost(record_value) ==
    \* line 247: record_value.get raises on a value that is no mapping
    IF ~IsDict(record_value) THEN {Throw("AttributeError", {})}
    \* line 271 is outside every try
    ELSE IF ~extract_images_from_record(record_value).ok
    THEN {Throw(extract_images_from_record(record_value).exc, {})}
    ELSE UNION {
        LET links == ReplyLinks(record_value, ctx)
            sil0 == IF links.failed THEN Caught(311, {}) ELSE {}
        IN  { RepliesAndMenu(rep, links.parent_uri, links.root_uri, s) :
                 rep \in RepliesAnswers, s \in ThreadContext(links, sil0) }
        : ctx \in ContextAnswers }

\* lines 197-436: every result the server's answers allow once the URI has
\* been parsed (did and rkey go into the request and the printed lines only)
FetchAndShow ==
    UNION {
        IF ~rec.ok
        THEN {Return("fetch_error", PyNone, PyNone, PyNone, Caught(217, {}))}
        ELSE ShowPost(rec.val)
        : rec \in RecordAnswers }

\* process_post(client, at_uri): every result the server's answers allow
process_post(uri) ==
    IF ~ParseUri(uri).ok
    THEN {Return("parse_error", PyNone, PyNone, PyNone, Caught(193, {}))}
    ELSE FetchAndShow

----------------------------------------------------------------------------
(* The lines the user types, and what main makes of them *)

\* s.strip()
RECURSIVE Strip(_)
Strip(s) ==
    IF s # <<>> /\ Head(s) = " " THEN Strip(Tail(s))
    ELSE IF s # <<>> /\ s[Len(s)] = " " THEN Strip(SubSeq(s, 1, Len(s) - 1))
    ELSE s

\* c.lower() for the letters of the options
LowerChar(c) ==
    CASE c = "Q" -> "q" [] c = "N" -> "n" [] c = "P" -> "p" [] c = "R" -> "r"
      [] OTHER -> c

\* s.lower()
Lower(s) == [i \in 1..Len(s) |-> LowerChar(s[i])]

Digits == <<"0", "1", "2", "3", "4", "5", "6", "7", "8", "9">>

\* s.isdigit()
IsDigit(s) == s # <<>> /\ \A i \in 1..Len(s) : \E d \in 1..10 : Digits[d] = s[i]

RECURSIVE ToInt(_)
\* int(s) of a string of digits
ToInt(s) ==
    IF s = <<>> THEN 0
    ELSE 10 * ToInt(SubSeq(s, 1, Len(s) - 1))
         + (CHOOSE d \in 0..9 : Digits[d + 1] = s[Len(s)])

\* as is_at_uri, testing the scheme only
is_at_uri_scheme_only(uri) == StartsWith(uri, AT_SCHEME)

is_at_uri(uri) == StartsWith(uri, AT_SCHEME) /\ Contains(uri, COLLECTION_PATH)

is_bluesky_url(url) == ProfilePostMatch(url).ok

\* lines typed at a URI prompt
LINE_POST_A == URI_A.v
LINE_LIKE ==
    AT_SCHEME \o <<"d", "i", "d", ":", "a", "/", "a", "p", "p", ".", "b", "s", "k", "y", ".",
                   "f", "e", "e", "d", ".", "l", "i", "k", "e", "/", "1">>
LINE_NO_ACTOR == <<" ", "a", "t", ":", "/">> \o COLLECTION_PATH \o <<" ">>
LINE_HANDLE_URL == HTTPS_PROFILE \o <<"a", "l">> \o SLASH_POST \o <<"1">>
LINE_WORD == <<"h", "i">>

UriLines ==
    {LINE_POST_A, LINE_LIKE, LINE_NO_ACTOR, LINE_HANDLE_URL,
     LINE_WORD, <<>>}

\* lines typed at the option prompt
OptionLines ==
    { <<"q">>, <<"Q">>, <<"n">>, <<"p">>, <<" ", "P">>, <<"r">>,
      <<"0">>, <<"1">>, <<"2">>, <<"3">>, <<"x">>, <<>> }

\* what resolve_handle may answer for this text: it is asked only for a
\* profile/post URL whose actor is no DID
ResolveAnswersFor(user_input) ==
    IF ProfilePostMatch(user_input).ok
         /\ ~StartsWith(ProfilePostMatch(user_input).handle_or_did, DID_PREFIX)
    THEN ResolveAnswers
    ELSE {[ok |-> FALSE, exc |-> "ResolveError"]}

\* lines 480-483, 496-502 and 515-521: the URI for the typed text.
\* guarded: whether is_bluesky_url guards the converter (it does not at 483)
ChooseUri(user_input, resolve, guarded) ==
    IF is_at_uri(user_input)
    THEN [kind |-> "at_uri", uri |-> PyStr(user_input), calls |-> <<>>, converted |-> FALSE]
    ELSE IF guarded /\ ~is_bluesky_url(user_input)
    THEN [kind |-> "invalid", uri |-> PyNone, calls |-> <<>>, converted |-> FALSE]
    ELSE LET c == convert_bluesky_url(user_input, resolve)
         IN  IF c.ok
             THEN [kind |-> "converted", uri |-> PyStr(c.val), calls |-> c.calls,
                   converted |-> TRUE]
             ELSE [kind |-> "raised", uri |-> PyNone, calls |-> c.calls,
                   converted |-> TRUE]

----------------------------------------------------------------------------
(* main *)

\* load_credentials_from_file: the file cannot be loaded, or username,
\* password and bluesky_url as data.get finds them
Credentials ==
    {Failure} \cup
    {Answer([username |-> u, password |-> w, bluesky_url |-> o]) :
        u \in {PyNone, PyStr(<<"u">>)},
        w \in {PyNone, PyStr(<<"w">>)},
        o \in {PyNone} \cup {PyStr(l) : l \in UriLines}}

LoginAnswers == {Failure, Answer(PyNone)}

Init ==
    /\ pc = "start"
    /\ arg = <<>>
    /\ env = <<>>
    /\ ret = [outcome |-> "none", converted |-> FALSE]
    /\ calls = <<>>
    /\ MainIdle

Outcome(o, conv) == [outcome |-> o, converted |-> conv]

\* `replies_resp, parent_uri, root_uri = process_post(client, uri)` inside a
\* try whose except clause is at `line`; r is what process_post hands back
\* and next_pc where main goes on
Display(uri, r, conv, line, next_pc) ==
    /\ processed' = <<uri>>
    /\ IF ~r.raised
       THEN /\ replies_resp' = r.replies_resp
            /\ parent_uri' = r.parent_uri
            /\ root_uri' = r.root_uri
            /\ ret' = Outcome(r.how, conv)
            /\ silent' = r.silent
            /\ pc' = next_pc
            /\ UNCHANGED exit_code
       ELSE IF ExceptException(r.exc)
       THEN /\ ret' = Outcome("raised", conv)
            /\ silent' = Caught(line, r.silent)
            /\ pc' = next_pc
            /\ UNCHANGED <<replies_resp, parent_uri, root_uri, exit_code>>
       ELSE \* the exception leaves main: traceback, exit status 1
            /\ ret' = Outcome("crashed", conv)
            /\ silent' = r.silent
            /\ pc' = "exited"
            /\ exit_code' = 1
            /\ UNCHANGED <<replies_resp, parent_uri, root_uri>>

\* a step that calls neither the converter nor process_post
NoDisplay(o, line) ==
    /\ ret' = Outcome(o, FALSE)
    /\ processed' = <<>>
    /\ calls' = <<>>
    /\ silent' = IF line = 0 THEN {} ELSE Caught(line, {})
    /\ UNCHANGED <<replies_resp, parent_uri, root_uri, at_uri>>

\* lines 452-490
Startup ==
    /\ pc = "start"
    /\ UNCHANGED <<env, choice>>
    /\ \E cred \in Credentials, login \in LoginAnswers :
          IF ~cred.ok \/ ~Truthy(cred.val.username) \/ ~Truthy(cred.val.password)
             \/ ~login.ok
          THEN /\ pc' = "exited"
               /\ exit_code' = 1
               /\ arg' = <<>>
               /\ NoDisplay("fatal",
                            IF ~cred.ok THEN 455
                            ELSE IF Truthy(cred.val.username) /\ Truthy(cred.val.password)
                                 THEN 468 ELSE 0)
          ELSE IF ~Truthy(cred.val.bluesky_url)
          THEN /\ pc' = "first_prompt"
               /\ arg' = <<>>
               /\ NoDisplay("interactive", 0)
               /\ UNCHANGED exit_code
          ELSE \E resolve \in ResolveAnswersFor(cred.val.bluesky_url.v) :
               LET optional_url == cred.val.bluesky_url.v
                   c == ChooseUri(optional_url, resolve, FALSE)
               IN  /\ arg' = optional_url
                   /\ calls' = c.calls
                   /\ IF c.kind = "raised"
                      THEN /\ ret' = Outcome("convert_error", TRUE)
                           /\ processed' = <<>>
                           /\ silent' = Caught(485, {})
                           /\ pc' = "option_prompt"
                           /\ UNCHANGED <<replies_resp, parent_uri, root_uri, at_uri,
                                          exit_code>>
                      ELSE /\ at_uri' = c.uri
                           /\ \E r \in process_post(c.uri) :
                                 Display(c.uri, r, c.converted, 485, "option_prompt")

\* lines 491-505, one turn of `while not at_uri`
FirstPrompt ==
    /\ pc = "first_prompt"
    /\ UNCHANGED <<env, choice>>
    /\ \E line \in UriLines : \E resolve \in ResolveAnswersFor(Strip(line)) :
          LET user_input == Strip(line)
              c == ChooseUri(user_input, resolve, TRUE)
          IN  /\ arg' = line
              /\ IF user_input = <<>>
                 THEN NoDisplay("empty", 0) /\ UNCHANGED <<pc, exit_code>>
                 ELSE IF c.kind = "invalid"
                 THEN NoDisplay("invalid_input", 0) /\ UNCHANGED <<pc, exit_code>>
                 ELSE IF c.kind = "raised"
                 THEN /\ ret' = Outcome("convert_error", TRUE)
                      /\ calls' = c.calls
                      /\ processed' = <<>>
                      /\ silent' = Caught(504, {})
                      /\ UNCHANGED <<replies_resp, parent_uri, root_uri, at_uri, pc,
                                     exit_code>>
                 ELSE /\ at_uri' = c.uri
                      /\ calls' = c.calls
                      /\ \E r \in process_post(c.uri) :
                            Display(c.uri, r, c.converted, 504, "option_prompt")

\* line 508: choice = input(...).strip().lower()
Typed(line) == Lower(Strip(line))

\* lines 509-511
Quit ==
    /\ pc = "option_prompt"
    /\ \E line \in OptionLines :
          /\ Typed(line) = <<"q">>
          /\ choice' = Typed(line)
          /\ pc' = "exited"
          /\ exit_code' = 0
          /\ NoDisplay("quit", 0)
          /\ UNCHANGED <<arg, env>>

\* lines 512-524
NewUri ==
    /\ pc = "option_prompt"
    /\ UNCHANGED env
    /\ \E line \in {l \in OptionLines : Typed(l) = <<"n">>}, typed \in UriLines :
       \E resolve \in ResolveAnswersFor(Strip(typed)) :
          LET user_input == Strip(typed)
              c == ChooseUri(user_input, resolve, TRUE)
          IN  /\ Typed(line) = <<"n">>
              /\ choice' = Typed(line)
              /\ arg' = typed
              /\ IF c.kind = "invalid"
                 THEN NoDisplay("invalid_input", 0) /\ UNCHANGED <<pc, exit_code>>
                 ELSE IF c.kind = "raised"
                 THEN /\ ret' = Outcome("convert_error", TRUE)
                      /\ calls' = c.calls
                      /\ processed' = <<>>
                      /\ silent' = Caught(523, {})
                      /\ UNCHANGED <<replies_resp, parent_uri, root_uri, at_uri, pc,
                                     exit_code>>
                 ELSE /\ at_uri' = c.uri
                      /\ calls' = c.calls
                      /\ \E r \in process_post(c.uri) :
                            Display(c.uri, r, c.converted, 523, "option_prompt")

\* line 525
ParentKnown(c) == c = <<"p">> /\ Truthy(parent_uri)

\* as RootKnown, without the comparison with parent_uri
RootKnown_set(c) == c = <<"r">> /\ Truthy(root_uri)

\* line 530
RootKnown(c) == c = <<"r">> /\ Truthy(root_uri) /\ root_uri # parent_uri

\* line 535
RepliesKnown(c) == IsDigit(c) /\ Truthy(replies_resp) /\ HasAttr(replies_resp, "thread")

\* lines 525-529
Parent ==
    /\ pc = "option_prompt"
    /\ \E line \in OptionLines :
          /\ ParentKnown(Typed(line))
          /\ choice' = Typed(line)
          /\ calls' = <<>>
          /\ \E r \in process_post(parent_uri) :
                Display(parent_uri, r, FALSE, 528, "option_prompt")
          /\ UNCHANGED <<arg, env, at_uri>>

\* lines 530-534
Root ==
    /\ pc = "option_prompt"
    /\ \E line \in OptionLines :
          /\ ~ParentKnown(Typed(line))
          /\ RootKnown(Typed(line))
          /\ choice' = Typed(line)
          /\ calls' = <<>>
          /\ \E r \in process_post(root_uri) :
                Display(root_uri, r, FALSE, 533, "option_prompt")
          /\ UNCHANGED <<arg, env, at_uri>>

\* lines 535-550
Reply ==
    /\ pc = "option_prompt"
    /\ \E line \in OptionLines :
          LET children == Children(replies_resp.v["thread"])
              reply_index == ToInt(Typed(line)) - 1
              count == PyLen(children)
              child == children.v[reply_index + 1]
          IN  /\ RepliesKnown(Typed(line))
              /\ choice' = Typed(line)
              /\ UNCHANGED <<arg, env>>
              /\ IF ~count.ok
                 THEN NoDisplay("navigation_error", 549) /\ UNCHANGED <<pc, exit_code>>
                 ELSE IF ~(0 <= reply_index /\ reply_index < count.val)
                 THEN NoDisplay("invalid_number", 0) /\ UNCHANGED <<pc, exit_code>>
                 ELSE IF ~(HasAttr(child, "post") /\ HasAttr(child.v["post"], "uri"))
                 THEN NoDisplay("navigation_error", 549) /\ UNCHANGED <<pc, exit_code>>
                 ELSE /\ calls' = <<>>
                      /\ UNCHANGED at_uri
                      /\ \E r \in process_post(child.v["post"].v["uri"]) :
                            Display(child.v["post"].v["uri"], r, FALSE, 549,
                                    "option_prompt")

\* lines 551-552
InvalidOption ==
    /\ pc = "option_prompt"
    /\ \E line \in OptionLines :
          /\ Typed(line) \notin {<<"q">>, <<"n">>}
          /\ ~ParentKnown(Typed(line))
          /\ ~RootKnown(Typed(line))
          /\ ~RepliesKnown(Typed(line))
          /\ choice' = Typed(line)
          /\ NoDisplay("invalid_option", 0)
          /\ UNCHANGED <<arg, env, pc, exit_code>>

Next ==
    \/ Startup
    \/ FirstPrompt
    \/ Quit
    \/ NewUri
    \/ Parent
    \/ Root
    \/ Reply
    \/ InvalidOption

Spec == Init /\ [][Next]_vars

----------------------------------------------------------------------------
(* Properties of main *)

Navigation == <<replies_resp, parent_uri, root_uri>>

\* C1: a command of the interactive loop that fails (conversion, parsing of
\* the target URI or the record fetch) leaves replies_resp, parent_uri and
\* root_uri as they were, and the loop prompts again.
C1_FailureKeepsNavigation ==
    [][(pc = "option_prompt"
          /\ ret'.outcome \in {"convert_error", "parse_error", "fetch_error"})
       => (pc' = "option_prompt" /\ Navigation' = Navigation)]_vars

\* C2: the process ends only at startup with status 1 or on 'q' with status
\* 0; from the prompts nothing else ends it.
C2_ExitsOnlyAtStartupOrQuit ==
    [][/\ pc' # "exited" => exit_code' = -1
       /\ (pc # "exited" /\ pc' = "exited") =>
             \/ pc = "start" /\ exit_code' = 1 /\ ret'.outcome = "fatal"
             \/ pc = "option_prompt" /\ choice' = <<"q">> /\ exit_code' = 0]_vars

C2_Witness ==
    /\ pc = "option_prompt"
    /\ ret.outcome = "raised"
    /\ choice = <<"p">>

\* C9: no except clause catches without printing.
C9_NoSilentCatch == silent = {}

\* C10 as stated: at the 'n' prompt every text that parse_at_uri accepts is
\* the URI displayed, with no conversion and no identity resolution.
C10_ValidAtUriUsedVerbatim ==
    (pc = "option_prompt" /\ choice = <<"n">> /\ parse_at_uri(Strip(arg)).ok) =>
        /\ processed = <<PyStr(Strip(arg))>>
        /\ ~ret.converted
        /\ calls = <<>>

\* C10 amended: at the 'n' prompt every text that starts with "at://" and
\* contains "/app.bsky.feed.post/" is the URI handed to process_post, with
\* no conversion and no identity resolution; a text that parse_at_uri
\* accepts but that lacks "/app.bsky.feed.post/" is refused as invalid
\* input, again with no conversion, and nothing is displayed.
C10_PostAtUriUsedVerbatim ==
    (pc = "option_prompt" /\ choice = <<"n">>) =>
        LET user_input == Strip(arg)
            post == \E i \in 1..Len(user_input) :
                       /\ i + Len(COLLECTION_PATH) - 1 <= Len(user_input)
                       /\ SubSeq(user_input, i, i + Len(COLLECTION_PATH) - 1)
                              = COLLECTION_PATH
        IN  /\ (StartsWith(user_input, AT_SCHEME) /\ post) =>
                  /\ processed = <<PyStr(user_input)>>
                  /\ at_uri = PyStr(user_input)
                  /\ ~ret.converted
                  /\ calls = <<>>
            /\ (parse_at_uri(user_input).ok /\ ~post) =>
                  /\ ret.outcome = "invalid_input"
                  /\ processed = <<>>
                  /\ ~ret.converted
                  /\ calls = <<>>

C10_Witness ==
    /\ pc = "option_prompt"
    /\ choice = <<"n">>
    /\ arg = LINE_POST_A
    /\ processed = <<URI_A>>
    /\ ret.outcome = "shown"

----------------------------------------------------------------------------
(* Navigation by 'p', 'r' and a reply number *)

\* lines 537-542: the children of the reply list main holds
DisplayedChildren ==
    IF Truthy(replies_resp) /\ HasAttr(replies_resp, "thread")
         /\ Children(replies_resp.v["thread"]).k = "list"
    THEN Children(replies_resp.v["thread"]).v
    ELSE <<>>

\* the target of the typed command c is known
TargetKnown(c) ==
    \/ c = <<"p">> /\ Truthy(parent_uri)
    \/ c = <<"r">> /\ Truthy(root_uri) /\ root_uri # parent_uri
    \/ IsDigit(c) /\ 1 <= ToInt(c) /\ ToInt(c) <= Len(DisplayedChildren)

\* C11: 'p' processes the parent only if parent_uri is set, 'r' the root only
\* if root_uri is set and differs from parent_uri, a number k a reply only if
\* 1 <= k <= number of replies held; otherwise no post is fetched and
\* parent_uri, root_uri and the reply list stay as they were.
C11_NavigationOnlyToKnownTarget ==
    [][(pc = "option_prompt" /\ (choice' \in {<<"p">>, <<"r">>} \/ IsDigit(choice')))
       => /\ processed' # <<>> => TargetKnown(choice')
          /\ (processed' # <<>> /\ choice' = <<"p">>) => processed' = <<parent_uri>>
          /\ (processed' # <<>> /\ choice' = <<"r">>) => processed' = <<root_uri>>
          /\ ~TargetKnown(choice') =>
                /\ processed' = <<>>
                /\ calls' = <<>>
                /\ pc' = "option_prompt"
                /\ Navigation' = Navigation]_vars

C11_Witness ==
    /\ pc = "option_prompt"
    /\ choice = <<"3">>
    /\ Len(DisplayedChildren) = 2
    /\ Truthy(parent_uri)
    /\ ret.outcome = "invalid_number"
    /\ processed = <<>>

----------------------------------------------------------------------------
(* The numbers process_post prints for the replies *)

RECURSIVE ReplyListing(_, _)
\* lines 368-397: the lines "[reply_num] ... URI: r_uri" for the children l,
\* the first of them at index i of enumerate(children)
ReplyListing(l, i) ==
    IF l = <<>> THEN <<>>
    ELSE LET reply == Head(l)
             r_uri == IF HasAttr(reply.v["post"], "uri")
                      THEN reply.v["post"].v["uri"] ELSE UNKNOWN_URI
         IN  (IF HasAttr(reply, "post")
              THEN <<[num |-> i + 1, uri |-> r_uri]>> ELSE <<>>)
             \o ReplyListing(Tail(l), i + 1)

\* lines 361 and 392: reply_uris after the loop over the children l
reply_uris(l) == [j \in 1..Len(ReplyListing(l, 0)) |-> ReplyListing(l, 0)[j].uri]

\* lines 400-405: the lines "[i] uri" of REPLY URIS (for quick access)
QuickAccess(l) == [j \in 1..Len(reply_uris(l)) |-> [num |-> j, uri |-> reply_uris(l)[j]]]

\* every numbered reply on display for the reply list main holds
NumberedReplies ==
    {ReplyListing(DisplayedChildren, 0)[j] :
        j \in 1..Len(ReplyListing(DisplayedChildren, 0))}
    \cup {QuickAccess(DisplayedChildren)[j] :
             j \in 1..Len(QuickAccess(DisplayedChildren))}

\* C12: for every reply printed with a number k, in the replies listing or
\* under REPLY URIS (for quick access), typing k at the option prompt has
\* process_post called with that reply's URI.
C12_NumberNavigatesToListedReply ==
    [][(pc = "option_prompt" /\ IsDigit(choice'))
       => \A e \in NumberedReplies :
             e.num = ToInt(choice') => processed' = <<e.uri>>]_vars

====
